---- MODULE Spec2Model ----
(***************************************************************************)
(* Model of PLC40_InformationStickers_AutoGenerate.py: a batch job that    *)
(* copies worksheet cells into named shapes of a presentation.             *)
(*                                                                         *)
(* Numbers with a fractional part are fixed point: geometry (points) is    *)
(* kept in hundredths of a point, worksheet floats in thousandths.         *)
(* Text is a sequence of one-character strings; shape names are strings.   *)
(***************************************************************************)
EXTENDS Integers, Sequences, FiniteSets, TLC

VARIABLES
    ws,             \* worksheet: [row -> [col -> raw value]]
    slideCount,     \* ppt_pres.Slides.Count
    shapes,         \* presentation shapes by name
    FORCE_COORDS,   \* configuration flag
    pc,             \* position of main: "loop", "done", "aborted"
    sticker_index,  \* data_row - 2
    field,          \* 0 = before the slide check, 1..4 points, 5 LOTO amount, 6 cabinet
    pass,           \* number of the current run of main (1 or 2)
    before,         \* shapes at the start of the current run
    cellsRead,      \* cells handed to safe_cell in the current run
    visited,        \* sticker indices the loop has begun, in order
    abortCause,     \* what ended the run when pc = "aborted"
    hostMayFail,    \* whether a host call of this run may raise
    call,           \* one call of safe_cell
    mapper,         \* one evaluation of the index arithmetic
    fmt,            \* one raw value and its three cleaned texts
    grid            \* two evaluations of coords_for_position

vars == <<ws, slideCount, shapes, FORCE_COORDS, pc, sticker_index, field, pass,
          before, cellsRead, visited, abortCause, hostMayFail, call, mapper, fmt, grid>>

mainVars == <<ws, slideCount, shapes, FORCE_COORDS, pc, sticker_index, field, pass,
              before, cellsRead, visited, abortCause, hostMayFail>>

----------------------------------------------------------------------------
(* Bounds *)

TotalStickers == 14     \* stands for total_stickers (120 in the script)
MaxIndex == 720         \* indices given to the index arithmetic
MaxStrLen == 3          \* length of the generated string cell values

----------------------------------------------------------------------------
(* Configuration *)

stickers_per_slide == 6

BASE_LEFTS == <<200, 50700>>
BASE_TOPS == <<6300, 24500, 42000>>

POINT_SIZE == <<45043, 3402>>
LOTO_SIZE == <<3203, 4110>>
CABINET_SIZE == <<13412, 2183>>

POINT_FONT_SIZE == 20
LOTO_FONT_SIZE == 22
CABINET_FONT_SIZE == 10

retries == 5

None == [t |-> "None"]

----------------------------------------------------------------------------
(* Decimal text *)

DigitChars == <<"0", "1", "2", "3", "4", "5", "6", "7", "8", "9">>

RECURSIVE NatChars(_)
NatChars(n) ==
    IF n < 10 THEN <<DigitChars[n + 1]>>
    ELSE NatChars(n \div 10) \o <<DigitChars[(n % 10) + 1]>>

RECURSIVE Join(_)
Join(cs) == IF cs = <<>> THEN "" ELSE Head(cs) \o Join(Tail(cs))

Abs(n) == IF n < 0 THEN -n ELSE n

\* f"{n:02d}"
Pad2(n) == IF n < 10 THEN "0" \o Join(NatChars(n)) ELSE Join(NatChars(n))

\* str(n) for an int
IntStr(n) == IF n < 0 THEN <<"-">> \o NatChars(-n) ELSE NatChars(n)

\* str(x) for a float x = sign * c / 100 with at most two decimals
\* (repr prints the shortest digits, and always at least one decimal)
CentiStr(neg, c) ==
    LET ip == c \div 100
        fr == c % 100
        frac == IF fr % 10 = 0 THEN <<DigitChars[(fr \div 10) + 1]>>
                ELSE <<DigitChars[(fr \div 10) + 1], DigitChars[(fr % 10) + 1]>>
    IN  (IF neg THEN <<"-">> ELSE <<>>) \o NatChars(ip) \o <<".">> \o frac

\* str(x) for a float x = m / 1000
MilliStr(m) ==
    LET a == Abs(m)
        ip == a \div 1000
        fr == a % 1000
        d1 == DigitChars[(fr \div 100) + 1]
        d2 == DigitChars[((fr \div 10) % 10) + 1]
        d3 == DigitChars[(fr % 10) + 1]
        frac == IF fr % 100 = 0 THEN <<d1>>
                ELSE IF fr % 10 = 0 THEN <<d1, d2>>
                ELSE <<d1, d2, d3>>
    IN  (IF m < 0 THEN <<"-">> ELSE <<>>) \o NatChars(ip) \o <<".">> \o frac

----------------------------------------------------------------------------
(* Index arithmetic of the row loop *)

\* mutant: floor plus one
ceil_div_floor_plus_one(a, b) == (a \div b) + 1

\* math.ceil(a / b) for positive ints in the exactly representable range
ceil_div(a, b) == IF a % b = 0 THEN a \div b ELSE (a \div b) + 1

slide_index_of(idx) == ceil_div(idx, stickers_per_slide)

pos_in_slide_of(idx) == ((idx - 1) % stickers_per_slide) + 1

\* mutant: one header row too many
data_row_of_three_headers(idx) == idx + 3

data_row_of(idx) == idx + 2

----------------------------------------------------------------------------
(* Raw cell values and the value cleaning of main *)

\* A cell value is None, a str, an int, a float m/1000 or the float nan.
StrVal(cs) == [t |-> "str", s |-> cs]
IntVal(n) == [t |-> "int", n |-> n]
FloatVal(m) == [t |-> "float", m |-> m]
NaN == [t |-> "nan"]

Whitespace == {" ", "\t"}

\* str(val)
Str(val) ==
    CASE val.t = "None" -> <<"N", "o", "n", "e">>
      [] val.t = "str" -> val.s
      [] val.t = "int" -> IntStr(val.n)
      [] val.t = "float" -> MilliStr(val.m)
      [] val.t = "nan" -> <<"n", "a", "n">>

RECURSIVE lstrip(_)
lstrip(cs) ==
    IF cs # <<>> /\ Head(cs) \in Whitespace THEN lstrip(Tail(cs)) ELSE cs

RECURSIVE rstrip(_)
rstrip(cs) ==
    IF cs # <<>> /\ cs[Len(cs)] \in Whitespace
    THEN rstrip(SubSeq(cs, 1, Len(cs) - 1)) ELSE cs

\* s.strip()
strip(cs) == rstrip(lstrip(cs))

BlankTexts == { <<>>, <<"n", "a", "n">>, <<"N", "o", "n", "e">> }

\* isinstance(val, (int, float))
is_number(val) == val.t \in {"int", "float", "nan"}

\* float(val).is_integer()
is_integer(val) ==
    CASE val.t = "int" -> TRUE
      [] val.t = "float" -> val.m % 1000 = 0
      [] OTHER -> FALSE

\* str(int(val)) for an integral number
int_text(val) == IF val.t = "int" THEN IntStr(val.n) ELSE IntStr(val.m \div 1000)

\* mutant: the third decimal is cut off
round2_truncating(m) == Abs(m) \div 10

\* round(val, 2) of a float m/1000, in hundredths without the sign. The
\* result is the nearest hundredth; a value half way between two hundredths
\* that a binary float holds exactly (m a multiple of 125) goes to the even one.
round2(m) ==
    LET a == Abs(m)
        q == a \div 10
        r == a % 10
    IN  IF r < 5 THEN q
        ELSE IF r > 5 THEN q + 1
        ELSE IF q % 2 = 0 THEN q ELSE q + 1

\* str(round(val, 2)); a negative value keeps its sign ("-0.0")
round_text(val) == CentiStr(val.m < 0, round2(val.m))

\* CLEAN VALUE of the point loop
clean_point(val) ==
    IF val # None /\ strip(Str(val)) \notin BlankTexts
    THEN IF is_number(val)
         THEN IF is_integer(val) THEN int_text(val) ELSE round_text(val)
         ELSE strip(Str(val))
    ELSE <<>>

\* the copy for the LOTO amount
clean_loto(val) ==
    IF val # None /\ strip(Str(val)) \notin BlankTexts
    THEN IF is_number(val)
         THEN IF is_integer(val) THEN int_text(val) ELSE round_text(val)
         ELSE strip(Str(val))
    ELSE <<>>

\* the copy for the cabinet
clean_cabinet(val) ==
    IF val # None /\ strip(Str(val)) \notin BlankTexts
    THEN IF is_number(val)
         THEN IF is_integer(val) THEN int_text(val) ELSE round_text(val)
         ELSE strip(Str(val))
    ELSE <<>>

----------------------------------------------------------------------------
(* Geometry *)

\* mutant: the grid filled column by column
coords_for_position_by_column(pos_index, size) ==
    LET idx == pos_index - 1
        col == idx \div 3
        row == idx % 3
    IN  <<BASE_LEFTS[col + 1], BASE_TOPS[row + 1], size[1], size[2]>>

coords_for_position(pos_index, size) ==
    LET idx == pos_index - 1
        col == idx % 2
        row == idx \div 2
        left == BASE_LEFTS[col + 1]
        top == BASE_TOPS[row + 1]
    IN  <<left, top, size[1], size[2]>>

apply_coords_steps(shp, coords, n) ==
    [shp EXCEPT !.Left = IF n >= 1 THEN coords[1] ELSE @,
                !.Top = IF n >= 2 THEN coords[2] ELSE @,
                !.Width = IF n >= 3 THEN coords[3] ELSE @,
                !.Height = IF n >= 4 THEN coords[4] ELSE @]

\* mutant: the width is added to the width the shape has
apply_coords_growing(shp, coords, failAt) ==
    LET n == IF failAt = 0 THEN 4 ELSE failAt - 1
    IN  [shp EXCEPT !.Left = IF n >= 1 THEN coords[1] ELSE @,
                    !.Top = IF n >= 2 THEN coords[2] ELSE @,
                    !.Width = IF n >= 3 THEN @ + coords[3] ELSE @,
                    !.Height = IF n >= 4 THEN coords[4] ELSE @]

\* apply_coords assigns Left, Top, Width, Height in turn. failAt = 0: every
\* assignment succeeds; failAt = j: the j-th assignment raises, the ones
\* before it have taken effect.
apply_coords(shp, coords, failAt) ==
    IF failAt = 0 THEN apply_coords_steps(shp, coords, 4)
    ELSE apply_coords_steps(shp, coords, failAt - 1)

CoordFailures == 0 .. 4

\* the point loop widens the box it computes from CABINET_SIZE
point_coords(pos) ==
    LET c == coords_for_position(pos, CABINET_SIZE)
    IN  <<c[1], c[2], c[3] + 4000, c[4]>>

loto_coords(pos) == coords_for_position(pos, LOTO_SIZE)

cabinet_coords(pos) == coords_for_position(pos, CABINET_SIZE)

----------------------------------------------------------------------------
(* Shapes *)

\* fault: "none"; "noframe" (reading TextFrame raises); "textfail" (assigning
\* TextRange.Text raises); "fontfail" (assigning Font.Size raises)
VerticalOrientations == {3, 4}

\* try: if shp.TextFrame.Orientation not in (3, 4): ...Text = val_text
\* except Exception: pass
write_text(shp, val_text) ==
    IF shp.fault = "noframe" THEN shp
    ELSE IF shp.Orientation \in VerticalOrientations THEN shp
    ELSE IF shp.fault = "textfail" THEN shp
    ELSE [shp EXCEPT !.Text = val_text]

apply_font_size(shp, size_pt) ==
    IF shp.fault \in {"noframe", "fontfail"} THEN shp
    ELSE [shp EXCEPT !.FontSize = size_pt]

PointName(idx, point_num) == "Point " \o Pad2(idx) \o "." \o Pad2(point_num)
LotoName(idx) == "LOTO Amount " \o Pad2(idx)
CabinetName(idx) == "Cabinet " \o Pad2(idx)

NoShape == "<None>"

\* slide.Shapes(name), or None when the slide has no shape of that name
safe_shape(shs, slide, name) ==
    IF name \in DOMAIN shs /\ shs[name].slide = slide THEN name ELSE NoShape

----------------------------------------------------------------------------
(* The documents the run starts from *)

NeededSlides == ceil_div(TotalStickers, stickers_per_slide)

Rows == 1 .. TotalStickers + 3
Cols == 8 .. 15

SampleValues == <<
    FloatVal(4000), StrVal(<<" ", "a", "b", "c", " ">>), FloatVal(4567), None,
    IntVal(12), StrVal(<<"n", "a", "n">>), FloatVal(4500), StrVal(<<"L", "1">>),
    FloatVal(-1), StrVal(<<"\t", "Q", "F", "2", " ">>), FloatVal(125),
    IntVal(0), NaN >>

Sheet(seed) ==
    [r \in Rows |-> [c \in Cols |->
        SampleValues[((7 * r + 3 * c + seed) % Len(SampleValues)) + 1]]]

Worksheets == { Sheet(0) }

StickerNames(idx) ==
    { PointName(idx, p) : p \in 1 .. 4 } \cup { LotoName(idx), CabinetName(idx) }

LogoName(slide) == "Logo " \o Pad2(slide)

OldText == <<"o", "l", "d">>

TemplateShape(slide) ==
    [slide |-> slide, Text |-> OldText, Left |-> 1000, Top |-> 1000,
     Width |-> 9000, Height |-> 3000, FontSize |-> 18, Orientation |-> 1,
     fault |-> "none"]

\* a presentation of nSlides slides laid out for the stickers, plus one
\* shape per slide that belongs to no sticker
RECURSIVE StickerShapes(_, _)
StickerShapes(i, nSlides) ==
    IF i = 0 THEN <<>>
    ELSE IF slide_index_of(i) > nSlides THEN StickerShapes(i - 1, nSlides)
    ELSE StickerShapes(i - 1, nSlides)
         @@ [n \in StickerNames(i) |-> TemplateShape(slide_index_of(i))]

RECURSIVE LogoShapes(_)
LogoShapes(nSlides) ==
    IF nSlides = 0 THEN <<>>
    ELSE LogoShapes(nSlides - 1) @@ (LogoName(nSlides) :> TemplateShape(nSlides))

Template(nSlides) == StickerShapes(TotalStickers, nSlides) @@ LogoShapes(nSlides)

AllStickerNames == UNION { StickerNames(i) : i \in 1 .. TotalStickers }

Restrict(f, S) == [x \in S |-> f[x]]

\* The presentations a run may meet: the full template, the template one
\* slide short, or the full template with one shape deviating. A run meets
\* one deviation at most: host calls may raise (hostMayFail) only in a run
\* on the full template.
Presentations ==
    LET full == Template(NeededSlides)
    IN  { [count |-> NeededSlides, sound |-> TRUE, shapes |-> full],
          [count |-> NeededSlides - 1, sound |-> FALSE,
           shapes |-> Template(NeededSlides - 1)] }
        \cup { [count |-> NeededSlides, sound |-> FALSE,
                shapes |-> Restrict(full, DOMAIN full \ {n})] : n \in AllStickerNames }
        \cup { [count |-> NeededSlides, sound |-> FALSE,
                shapes |-> [full EXCEPT ![n].slide = (@ % NeededSlides) + 1]] :
               n \in AllStickerNames }
        \cup { [count |-> NeededSlides, sound |-> FALSE,
                shapes |-> [full EXCEPT ![n].Orientation = o]] :
               n \in AllStickerNames, o \in VerticalOrientations }
        \cup { [count |-> NeededSlides, sound |-> FALSE,
                shapes |-> [full EXCEPT ![n].fault = f]] :
               n \in AllStickerNames, f \in {"noframe", "textfail", "fontfail"} }

Idle == [status |-> "idle"]

Init ==
    /\ ws \in Worksheets
    /\ \E p \in Presentations :
         slideCount = p.count /\ shapes = p.shapes /\ hostMayFail = p.sound
    /\ FORCE_COORDS \in BOOLEAN
    /\ pc = "loop"
    /\ sticker_index = 1
    /\ field = 0
    /\ pass = 1
    /\ before = shapes
    /\ cellsRead = {}
    /\ visited = <<>>
    /\ abortCause = "none"
    /\ call = Idle
    /\ mapper = Idle
    /\ fmt = Idle
    /\ grid = Idle

----------------------------------------------------------------------------
(* main: the row loop *)

\* what a call of safe_cell gives its caller: the cell's value, the
\* RuntimeError after the retries, or the host's other exception
ReadOutcomes == {"value", "RuntimeError", "Exception"}

Reads == IF hostMayFail THEN ReadOutcomes ELSE {"value"}

CoordFails == IF hostMayFail THEN CoordFailures ELSE {0}

Abort(cause) ==
    /\ pc' = "aborted"
    /\ abortCause' = cause
    /\ UNCHANGED <<sticker_index, field>>

\* mutant: the missing slide ends the loop (break instead of continue)
MissingSlide_break ==
    /\ pc = "loop" /\ field = 0 /\ sticker_index <= TotalStickers
    /\ slide_index_of(sticker_index) > slideCount
    /\ visited' = Append(visited, sticker_index)
    /\ sticker_index' = TotalStickers + 1
    /\ UNCHANGED <<ws, slideCount, shapes, FORCE_COORDS, pc, field, pass, before,
                   cellsRead, abortCause, hostMayFail>>

\* the slide of the sticker does not exist: warning, continue
MissingSlide ==
    /\ pc = "loop" /\ field = 0 /\ sticker_index <= TotalStickers
    /\ slide_index_of(sticker_index) > slideCount
    /\ visited' = Append(visited, sticker_index)
    /\ sticker_index' = sticker_index + 1
    /\ UNCHANGED <<ws, slideCount, shapes, FORCE_COORDS, pc, field, pass, before,
                   cellsRead, abortCause, hostMayFail>>

EnterSlide ==
    /\ pc = "loop" /\ field = 0 /\ sticker_index <= TotalStickers
    /\ ~(slide_index_of(sticker_index) > slideCount)
    /\ visited' = Append(visited, sticker_index)
    /\ field' = 1
    /\ UNCHANGED <<ws, slideCount, shapes, FORCE_COORDS, pc, sticker_index, pass,
                   before, cellsRead, abortCause, hostMayFail>>

\* one iteration of the loop over the four point shapes
PointField ==
    /\ pc = "loop" /\ field \in 1 .. 4
    /\ LET data_row == data_row_of(sticker_index)
           slide_index == slide_index_of(sticker_index)
           pos_in_slide == pos_in_slide_of(sticker_index)
           col == 8 + field
           name == PointName(sticker_index, field)
           shp == safe_shape(shapes, slide_index, name)
       IN  IF shp = NoShape
           THEN /\ field' = field + 1
                /\ UNCHANGED <<shapes, pc, sticker_index, cellsRead, abortCause>>
           ELSE /\ cellsRead' = cellsRead \cup {<<data_row, col>>}
                /\ \E outcome \in Reads :
                     IF outcome # "value"
                     THEN Abort(outcome) /\ UNCHANGED shapes
                     ELSE LET val_text == clean_point(ws[data_row][col])
                              written == write_text(shapes[shp], val_text)
                          IN  IF FORCE_COORDS
                              THEN \E failAt \in CoordFails :
                                     /\ shapes' = [shapes EXCEPT ![shp] =
                                            apply_coords(written, point_coords(pos_in_slide), failAt)]
                                     /\ IF failAt # 0
                                        THEN Abort("apply_coords")
                                        ELSE /\ field' = field + 1
                                             /\ UNCHANGED <<pc, sticker_index, abortCause>>
                              ELSE /\ shapes' = [shapes EXCEPT ![shp] = written]
                                   /\ field' = field + 1
                                   /\ UNCHANGED <<pc, sticker_index, abortCause>>
    /\ UNCHANGED <<ws, slideCount, FORCE_COORDS, pass, before, visited, hostMayFail>>

LotoField ==
    /\ pc = "loop" /\ field = 5
    /\ LET data_row == data_row_of(sticker_index)
           slide_index == slide_index_of(sticker_index)
           pos_in_slide == pos_in_slide_of(sticker_index)
           name == LotoName(sticker_index)
           shp == safe_shape(shapes, slide_index, name)
       IN  IF shp = NoShape
           THEN /\ field' = field + 1
                /\ UNCHANGED <<shapes, pc, sticker_index, cellsRead, abortCause>>
           ELSE /\ cellsRead' = cellsRead \cup {<<data_row, 13>>}
                /\ \E outcome \in Reads :
                     IF outcome # "value"
                     THEN Abort(outcome) /\ UNCHANGED shapes
                     ELSE LET val_text == clean_loto(ws[data_row][13])
                              written == write_text(shapes[shp], val_text)
                          IN  IF FORCE_COORDS
                              THEN \E failAt \in CoordFails :
                                     IF failAt # 0
                                     THEN /\ shapes' = [shapes EXCEPT ![shp] =
                                                apply_coords(written, loto_coords(pos_in_slide), failAt)]
                                          /\ Abort("apply_coords")
                                     ELSE /\ shapes' = [shapes EXCEPT ![shp] =
                                                apply_font_size(
                                                    apply_coords(written, loto_coords(pos_in_slide), 0),
                                                    LOTO_FONT_SIZE)]
                                          /\ field' = field + 1
                                          /\ UNCHANGED <<pc, sticker_index, abortCause>>
                              ELSE /\ shapes' = [shapes EXCEPT ![shp] = written]
                                   /\ field' = field + 1
                                   /\ UNCHANGED <<pc, sticker_index, abortCause>>
    /\ UNCHANGED <<ws, slideCount, FORCE_COORDS, pass, before, visited, hostMayFail>>

\* the cabinet shape ends the body of the row loop
CabinetField ==
    /\ pc = "loop" /\ field = 6
    /\ LET data_row == data_row_of(sticker_index)
           slide_index == slide_index_of(sticker_index)
           pos_in_slide == pos_in_slide_of(sticker_index)
           name == CabinetName(sticker_index)
           shp == safe_shape(shapes, slide_index, name)
       IN  IF shp = NoShape
           THEN /\ field' = 0
                /\ sticker_index' = sticker_index + 1
                /\ UNCHANGED <<shapes, pc, cellsRead, abortCause>>
           ELSE /\ cellsRead' = cellsRead \cup {<<data_row, 14>>}
                /\ \E outcome \in Reads :
                     IF outcome # "value"
                     THEN Abort(outcome) /\ UNCHANGED shapes
                     ELSE LET val_text == clean_cabinet(ws[data_row][14])
                              written == write_text(shapes[shp], val_text)
                          IN  \E failAt \in (IF FORCE_COORDS THEN CoordFails ELSE {0}) :
                                IF failAt # 0
                                THEN /\ shapes' = [shapes EXCEPT ![shp] =
                                           apply_coords(written, cabinet_coords(pos_in_slide), failAt)]
                                     /\ Abort("apply_coords")
                                ELSE /\ shapes' = [shapes EXCEPT ![shp] =
                                           apply_font_size(
                                               IF FORCE_COORDS
                                               THEN apply_coords(written, cabinet_coords(pos_in_slide), 0)
                                               ELSE written,
                                               CABINET_FONT_SIZE)]
                                     /\ field' = 0
                                     /\ sticker_index' = sticker_index + 1
                                     /\ UNCHANGED <<pc, abortCause>>
    /\ UNCHANGED <<ws, slideCount, FORCE_COORDS, pass, before, visited, hostMayFail>>

\* the loop is over: the final success line
Finish ==
    /\ pc = "loop" /\ field = 0 /\ sticker_index = TotalStickers + 1
    /\ pc' = "done"
    /\ UNCHANGED <<ws, slideCount, shapes, FORCE_COORDS, sticker_index, field, pass,
                   before, cellsRead, visited, abortCause, hostMayFail>>

\* the script is run again on the documents the first run left
RunAgain ==
    /\ pc = "done" /\ pass = 1
    /\ pass' = 2
    /\ before' = shapes
    /\ pc' = "loop"
    /\ sticker_index' = 1
    /\ field' = 0
    /\ cellsRead' = {}
    /\ visited' = <<>>
    /\ UNCHANGED <<ws, slideCount, shapes, FORCE_COORDS, abortCause, hostMayFail>>

Next ==
    \/ MissingSlide /\ UNCHANGED <<call, mapper, fmt, grid>>
    \/ EnterSlide /\ UNCHANGED <<call, mapper, fmt, grid>>
    \/ PointField /\ UNCHANGED <<call, mapper, fmt, grid>>
    \/ LotoField /\ UNCHANGED <<call, mapper, fmt, grid>>
    \/ CabinetField /\ UNCHANGED <<call, mapper, fmt, grid>>
    \/ Finish /\ UNCHANGED <<call, mapper, fmt, grid>>
    \/ RunAgain /\ UNCHANGED <<call, mapper, fmt, grid>>

Spec == Init /\ [][Next]_vars

----------------------------------------------------------------------------
(* The documents are open and main has not entered the loop: the state in  *)
(* which the helper functions are exercised one at a time.                 *)

MainIdle ==
    /\ ws \in Worksheets
    /\ slideCount = NeededSlides
    /\ shapes = Template(NeededSlides)
    /\ FORCE_COORDS = FALSE
    /\ pc = "idle"
    /\ sticker_index = 1
    /\ field = 0
    /\ pass = 1
    /\ before = shapes
    /\ cellsRead = {}
    /\ visited = <<>>
    /\ abortCause = "none"
    /\ hostMayFail = TRUE

----------------------------------------------------------------------------
(* safe_cell, one loop iteration per step *)

\* mutant: one iteration too many
range_has_next_inclusive(n, count) == n <= count

\* for _ in range(count): whether an n+1-th iteration begins
range_has_next(n, count) == n < count

InitCell ==
    /\ MainIdle
    /\ \E row \in 3 .. TotalStickers + 2, col \in 9 .. 14 :
         call = [status |-> "running", row |-> row, col |-> col, attempts |-> 0,
                 rejections |-> 0, sleeps |-> 0, value |-> None]
    /\ mapper = Idle /\ fmt = Idle /\ grid = Idle

\* ws.Cells(row, col).Value answers
CellReturn ==
    /\ call.status = "running" /\ range_has_next(call.attempts, retries)
    /\ call' = [call EXCEPT !.attempts = @ + 1, !.status = "returned",
                            !.value = ws[call.row][call.col]]
    /\ UNCHANGED <<mainVars, mapper, fmt, grid>>

\* the host raises "Call was rejected by callee": sleep, next iteration
CellRejected ==
    /\ call.status = "running" /\ range_has_next(call.attempts, retries)
    /\ call' = [call EXCEPT !.attempts = @ + 1, !.rejections = @ + 1,
                            !.sleeps = @ + 1]
    /\ UNCHANGED <<mainVars, mapper, fmt, grid>>

\* the host raises anything else: re-raised at once
CellOtherError ==
    /\ call.status = "running" /\ range_has_next(call.attempts, retries)
    /\ call' = [call EXCEPT !.attempts = @ + 1, !.status = "Exception"]
    /\ UNCHANGED <<mainVars, mapper, fmt, grid>>

\* the loop ran out: RuntimeError naming the cell
CellExhausted ==
    /\ call.status = "running" /\ ~range_has_next(call.attempts, retries)
    /\ call' = [call EXCEPT !.status = "RuntimeError"]
    /\ UNCHANGED <<mainVars, mapper, fmt, grid>>

NextCell == CellReturn \/ CellRejected \/ CellOtherError \/ CellExhausted

SpecCell == InitCell /\ [][NextCell]_vars

----------------------------------------------------------------------------
(* The index arithmetic applied to one index *)

InitMapper ==
    /\ MainIdle
    /\ \E i \in 1 .. MaxIndex : mapper = [status |-> "input", index |-> i, slide |-> 0, pos |-> 0]
    /\ call = Idle /\ fmt = Idle /\ grid = Idle

MapIndex ==
    /\ mapper.status = "input"
    /\ mapper' = [mapper EXCEPT !.status = "mapped",
                                !.slide = slide_index_of(mapper.index),
                                !.pos = pos_in_slide_of(mapper.index)]
    /\ UNCHANGED <<mainVars, call, fmt, grid>>

NextMapper == MapIndex

SpecMapper == InitMapper /\ [][NextMapper]_vars

----------------------------------------------------------------------------
(* The three copies of the value cleaning applied to one raw value *)

MaxMilli == 1100        \* floats -1.100 .. 1.100 in steps of 0.001

StrAlphabet == {" ", "a", "n"}

RECURSIVE StringsUpTo(_)
StringsUpTo(n) ==
    IF n = 0 THEN { <<>> }
    ELSE LET shorter == StringsUpTo(n - 1)
         IN  shorter \cup { Append(cs, ch) : cs \in shorter, ch \in StrAlphabet }

\* A float half way between two hundredths is left out unless a binary
\* float holds it exactly: elsewhere the binary expansion decides the side.
FloatMillis ==
    { m \in (-MaxMilli .. MaxMilli) \cup {4000, 4001, 4500, 4567, 4996, 12340, -4567, -2000} :
        (Abs(m) % 10 = 5) => (Abs(m) % 125 = 0) }

RawValues ==
    {None, NaN}
    \cup { IntVal(n) : n \in {-12, -1, 0, 1, 4, 10, 12, 100} }
    \cup { FloatVal(m) : m \in FloatMillis }
    \cup { StrVal(cs) : cs \in StringsUpTo(MaxStrLen) }
    \cup { StrVal(cs) : cs \in { <<" ", "a", "b", "c", " ">>, <<"N", "o", "n", "e">>,
                                 <<" ", "N", "o", "n", "e", "\t">>, <<"\t", "n", "a", "n", " ">>,
                                 <<"a", " ", "b">>, <<"4", ".", "0">>, <<"n", "a", "n", "a">> } }

InitFormat ==
    /\ MainIdle
    /\ \E v \in RawValues :
         fmt = [status |-> "raw", raw |-> v, done |-> {}, point |-> <<>>,
                loto |-> <<>>, cabinet |-> <<>>]
    /\ call = Idle /\ mapper = Idle /\ grid = Idle

CleanPoint ==
    /\ fmt.status = "raw" /\ "point" \notin fmt.done
    /\ fmt' = [fmt EXCEPT !.done = @ \cup {"point"}, !.point = clean_point(fmt.raw)]
    /\ UNCHANGED <<mainVars, call, mapper, grid>>

CleanLoto ==
    /\ fmt.status = "raw" /\ "loto" \notin fmt.done
    /\ fmt' = [fmt EXCEPT !.done = @ \cup {"loto"}, !.loto = clean_loto(fmt.raw)]
    /\ UNCHANGED <<mainVars, call, mapper, grid>>

CleanCabinet ==
    /\ fmt.status = "raw" /\ "cabinet" \notin fmt.done
    /\ fmt' = [fmt EXCEPT !.done = @ \cup {"cabinet"}, !.cabinet = clean_cabinet(fmt.raw)]
    /\ UNCHANGED <<mainVars, call, mapper, grid>>

NextFormat == CleanPoint \/ CleanLoto \/ CleanCabinet

SpecFormat == InitFormat /\ [][NextFormat]_vars

----------------------------------------------------------------------------
(* coords_for_position applied to two positions with one size *)

GridPositions == 1 .. (Len(BASE_LEFTS) * Len(BASE_TOPS))

Sizes == { POINT_SIZE, LOTO_SIZE, CABINET_SIZE, <<1000, 2000>> }

InitCoords ==
    /\ MainIdle
    /\ \E p \in GridPositions, q \in GridPositions, size \in Sizes :
         grid = [status |-> "input", p |-> p, q |-> q, size |-> size,
                 a |-> <<>>, b |-> <<>>]
    /\ call = Idle /\ mapper = Idle /\ fmt = Idle

Coords ==
    /\ grid.status = "input"
    /\ grid' = [grid EXCEPT !.status = "computed",
                            !.a = coords_for_position(grid.p, grid.size),
                            !.b = coords_for_position(grid.q, grid.size)]
    /\ UNCHANGED <<mainVars, call, mapper, fmt>>

NextCoords == Coords

SpecCoords == InitCoords /\ [][NextCoords]_vars

----------------------------------------------------------------------------
(* Vocabulary of the properties, stated without the operators of the model *)

\* the two-digit decimal name of a sticker or point number below 100
TwoDigits(n) == DigitChars[(n \div 10) + 1] \o DigitChars[(n % 10) + 1]

\* the name of the shape of field f (1..4 points, 5 count, 6 cabinet)
FieldShapeName(i, f) ==
    IF f <= 4 THEN "Point " \o TwoDigits(i) \o "." \o TwoDigits(f)
    ELSE IF f = 5 THEN "LOTO Amount " \o TwoDigits(i)
    ELSE "Cabinet " \o TwoDigits(i)

\* the least number of slides of per_slide stickers that holds i stickers
CeilOf(i, per_slide) == CHOOSE sl \in 1 .. i : per_slide * (sl - 1) < i /\ i <= per_slide * sl

\* the shape of field f of sticker i is on the slide the loop looks at
OnItsSlide(i, f) ==
    /\ CeilOf(i, 6) <= slideCount
    /\ FieldShapeName(i, f) \in DOMAIN shapes
    /\ shapes[FieldShapeName(i, f)].slide = CeilOf(i, 6)

\* every slide and shape exists, every shape takes text, geometry and font
AllTargetsSound ==
    \A i \in 1 .. TotalStickers, f \in 1 .. 6 :
        /\ OnItsSlide(i, f)
        /\ shapes[FieldShapeName(i, f)].Orientation \notin {3, 4}
        /\ shapes[FieldShapeName(i, f)].fault = "none"

SameGeometryAndFont(a, b) ==
    /\ a.Left = b.Left /\ a.Top = b.Top
    /\ a.Width = b.Width /\ a.Height = b.Height
    /\ a.FontSize = b.FontSize

----------------------------------------------------------------------------
(* C1 *)

\* C1: safe_cell makes at most 5 read attempts; when it returns, the host
\* has rejected k < 5 reads, safe_cell has made k + 1 attempts and slept k
\* times and returns the cell's value; when it raises the exhaustion error,
\* the host has rejected 5 reads out of exactly 5 attempts.
C1_RetryBound ==
    /\ call.status # "idle" =>
         /\ call.attempts <= 5
         /\ call.status = "returned" =>
              /\ call.rejections < 5
              /\ call.attempts = call.rejections + 1
              /\ call.sleeps = call.rejections
              /\ call.value = ws[call.row][call.col]
         /\ call.status = "RuntimeError" =>
              /\ call.attempts = 5
              /\ call.rejections = 5
              /\ call.sleeps = 5
         /\ call.status = "running" => call.attempts = call.rejections

C1_Witness ==
    /\ call.status = "returned"
    /\ call.rejections = 3 /\ call.sleeps = 3 /\ call.attempts = 4

----------------------------------------------------------------------------
(* C2 *)

\* C2: no failure of a write of text, geometry or font to a located shape
\* stops the row loop: the run is never ended by such a failure.
C2_WriteFailureTolerated ==
    ~(pc = "aborted" /\ abortCause = "apply_coords")

----------------------------------------------------------------------------
(* C3 *)

\* C3: with FORCE_COORDS off, every shape keeps the left, top, width,
\* height and font size it had when the run began.
C3_OnlyTextChanges ==
    (pc \in {"loop", "done", "aborted"} /\ ~FORCE_COORDS) =>
        \A n \in DOMAIN shapes : SameGeometryAndFont(shapes[n], before[n])

----------------------------------------------------------------------------
(* C4 *)

\* C4: after a complete run in which every slide and shape exists, no shape
\* is vertical and no read or write failed, the shape of field f of sticker i
\* on slide ceil(i/6) holds the cleaned value of cell (i + 2, 8 + f), and
\* the shapes of no sticker hold what they held.
C4_RowToShape ==
    (pc = "done" /\ AllTargetsSound) =>
        /\ \A i \in 1 .. TotalStickers, f \in 1 .. 6 :
             shapes[FieldShapeName(i, f)].Text = clean_point(ws[i + 2][8 + f])
        /\ \A n \in DOMAIN shapes \ { FieldShapeName(i, f) : i \in 1 .. TotalStickers, f \in 1 .. 6 } :
             shapes[n].Text = before[n].Text

C4_Witness ==
    /\ pc = "done" /\ pass = 1 /\ AllTargetsSound
    /\ TotalStickers >= 13
    /\ shapes["Point 13.01"].slide = 3
    /\ shapes["Point 13.01"].Text = clean_point(ws[15][9])
    /\ shapes["Cabinet 13"].Text = clean_point(ws[15][14])
    /\ shapes["Point 13.01"].Text # shapes["Cabinet 13"].Text

----------------------------------------------------------------------------
(* C5 *)

\* C5: for an index in 1..720 the slide is ceil(index/6), the position is
\* ((index-1) mod 6)+1 and lies in 1..6, and (slide-1)*6 + position = index.
C5_IndexMapper ==
    mapper.status = "mapped" =>
        /\ 6 * (mapper.slide - 1) < mapper.index
        /\ mapper.index <= 6 * mapper.slide
        /\ mapper.pos \in 1 .. 6
        /\ mapper.pos = ((mapper.index - 1) % 6) + 1
        /\ (mapper.slide - 1) * 6 + mapper.pos = mapper.index
        /\ mapper.index = 1 => (mapper.slide = 1 /\ mapper.pos = 1)
        /\ mapper.index = 6 => (mapper.slide = 1 /\ mapper.pos = 6)
        /\ mapper.index = 7 => (mapper.slide = 2 /\ mapper.pos = 1)

C5_Witness ==
    /\ mapper.status = "mapped"
    /\ mapper.index = 720 /\ mapper.slide = 120 /\ mapper.pos = 6

----------------------------------------------------------------------------
(* C6 *)

IsDigit(ch) == \E d \in 1 .. 10 : DigitChars[d] = ch

DigitValue(ch) == (CHOOSE d \in 1 .. 10 : DigitChars[d] = ch) - 1

RECURSIVE NatValue(_)
NatValue(cs) ==
    IF cs = <<>> THEN 0
    ELSE NatValue(SubSeq(cs, 1, Len(cs) - 1)) * 10 + DigitValue(cs[Len(cs)])

\* decimal digits without a leading zero
IsNatText(cs) ==
    /\ cs # <<>>
    /\ \A k \in 1 .. Len(cs) : IsDigit(cs[k])
    /\ Len(cs) > 1 => cs[1] # "0"

\* cs is the integer n written without a decimal point
IsIntText(cs, n) ==
    IF n < 0
    THEN cs # <<>> /\ cs[1] = "-" /\ IsNatText(Tail(cs)) /\ NatValue(Tail(cs)) = -n
    ELSE IsNatText(cs) /\ NatValue(cs) = n

\* cs is c/100 (negated when neg) written with one or two decimals, the
\* second one never a zero
IsCentiText(cs, neg, c) ==
    LET body == IF neg THEN Tail(cs) ELSE cs
    IN  /\ cs # <<>>
        /\ neg <=> (cs[1] = "-")
        /\ \E k \in 2 .. Len(body) - 1 :
             LET ip == SubSeq(body, 1, k - 1)
                 frac == SubSeq(body, k + 1, Len(body))
             IN  /\ body[k] = "."
                 /\ IsNatText(ip)
                 /\ Len(frac) \in {1, 2}
                 /\ \A j \in 1 .. Len(frac) : IsDigit(frac[j])
                 /\ Len(frac) = 2 => frac[2] # "0"
                 /\ NatValue(ip) * 100
                      + (IF Len(frac) = 1 THEN 10 * DigitValue(frac[1]) ELSE NatValue(frac)) = c

\* out is cs without its leading and trailing whitespace
IsTrimOf(out, cs) ==
    \E i \in 0 .. Len(cs) : \E j \in i .. Len(cs) :
        /\ out = SubSeq(cs, i + 1, j)
        /\ \A k \in (1 .. i) \cup ((j + 1) .. Len(cs)) : cs[k] \in {" ", "\t"}
        /\ out # <<>> => (out[1] \notin {" ", "\t"} /\ out[Len(out)] \notin {" ", "\t"})

\* text is the display text of the raw value v
IsDisplayText(text, v) ==
    CASE v.t = "None" -> text = <<>>
      [] v.t = "nan" -> text = <<>>
      [] v.t = "int" -> IsIntText(text, v.n)
      [] v.t = "float" /\ v.m % 1000 = 0 -> IsIntText(text, v.m \div 1000)
      [] v.t = "float" /\ v.m % 1000 # 0 ->
            \E c \in { Abs(v.m) \div 10, (Abs(v.m) \div 10) + 1 } :
                /\ Abs(10 * c - Abs(v.m)) <= 5
                /\ IsCentiText(text, v.m < 0, c)
      [] v.t = "str" ->
            \E out \in { SubSeq(v.s, i, j) : i \in 1 .. Len(v.s) + 1, j \in 0 .. Len(v.s) } :
                /\ IsTrimOf(out, v.s)
                /\ text = IF out \in { <<>>, <<"n", "a", "n">>, <<"N", "o", "n", "e">> }
                          THEN <<>> ELSE out

FmtText(which) ==
    CASE which = "point" -> fmt.point
      [] which = "loto" -> fmt.loto
      [] which = "cabinet" -> fmt.cabinet

\* C6: each of the three copies of the value cleaning gives the empty text
\* for None and for a value whose stripped string form is "", "nan" or
\* "None", the integer text for an integral number, the text of the value
\* rounded to two decimals for another number, and the trimmed string
\* otherwise; the three copies agree.
C6_ValueFormatter ==
    fmt.status = "raw" =>
        /\ \A w \in fmt.done :
             /\ IsDisplayText(FmtText(w), fmt.raw)
             /\ fmt.raw = StrVal(<<"n", "a", "n">>) => FmtText(w) = <<>>
             /\ fmt.raw = FloatVal(4000) => FmtText(w) = <<"4">>
             /\ fmt.raw = FloatVal(4500) => FmtText(w) = <<"4", ".", "5">>
             /\ fmt.raw = FloatVal(4567) => FmtText(w) = <<"4", ".", "5", "7">>
             /\ fmt.raw = StrVal(<<" ", "a", "b", "c", " ">>) => FmtText(w) = <<"a", "b", "c">>
        /\ \A w1 \in fmt.done, w2 \in fmt.done : FmtText(w1) = FmtText(w2)

C6_Witness ==
    /\ fmt.status = "raw"
    /\ fmt.done = {"point", "loto", "cabinet"}
    /\ fmt.raw = FloatVal(4567)
    /\ fmt.cabinet = <<"4", ".", "5", "7">>

----------------------------------------------------------------------------
(* C7 *)

----------------------------------------------------------------------------
(* C8 *)

\* C8: with FORCE_COORDS on, after a complete run on sound targets, every
\* point shape has the size POINT_SIZE, every count shape the size LOTO_SIZE
\* and the font size LOTO_FONT_SIZE, every cabinet shape the size
\* CABINET_SIZE and the font size CABINET_FONT_SIZE, and left and top are
\* those of the sticker's position in the slide.
C8_SizeTable ==
    (pc = "done" /\ FORCE_COORDS /\ AllTargetsSound) =>
        \A i \in 1 .. TotalStickers, f \in 1 .. 6 :
            LET shp == shapes[FieldShapeName(i, f)]
                size == IF f <= 4 THEN <<45043, 3402>>
                        ELSE IF f = 5 THEN <<3203, 4110>> ELSE <<13412, 2183>>
                posn == ((i - 1) % 6) + 1
            IN  /\ shp.Width = size[1] /\ shp.Height = size[2]
                /\ shp.Left = (IF posn % 2 = 1 THEN 200 ELSE 50700)
                /\ shp.Top = (IF posn <= 2 THEN 6300 ELSE IF posn <= 4 THEN 24500 ELSE 42000)
                /\ f = 5 => shp.FontSize = 22
                /\ f = 6 => shp.FontSize = 10

----------------------------------------------------------------------------
(* C9 *)

\* C9: for a position p in 1..6 and a size (w, h), coords_for_position is
\* (BASE_LEFTS[(p-1) mod 2], BASE_TOPS[(p-1) div 2], w, h); two positions
\* in one row differ in left only, two in one column differ in top only.
C9_Grid ==
    grid.status = "computed" =>
        /\ grid.a[1] = (IF grid.p \in {1, 3, 5} THEN 200 ELSE 50700)
        /\ grid.a[2] = (IF grid.p \in {1, 2} THEN 6300
                        ELSE IF grid.p \in {3, 4} THEN 24500 ELSE 42000)
        /\ grid.a[3] = grid.size[1] /\ grid.a[4] = grid.size[2]
        /\ grid.b[3] = grid.size[1] /\ grid.b[4] = grid.size[2]
        /\ (grid.p = 1 /\ grid.q = 2) => (grid.a[1] # grid.b[1] /\ grid.a[2] = grid.b[2])
        /\ (grid.p = 1 /\ grid.q = 3) => (grid.a[1] = grid.b[1] /\ grid.a[2] # grid.b[2])

C9_Witness ==
    /\ grid.status = "computed"
    /\ grid.p = 1 /\ grid.q = 3 /\ grid.size = <<1000, 2000>>
    /\ grid.a = <<200, 6300, 1000, 2000>>
    /\ grid.b = <<200, 24500, 1000, 2000>>

----------------------------------------------------------------------------
(* C10 *)

\* the loop stands before field f of sticker i and its shape is not on the slide
AtMissingShape ==
    /\ pc = "loop" /\ field \in 1 .. 6
    /\ ~OnItsSlide(sticker_index, field)

\* the loop stands before a sticker whose slide does not exist
AtMissingSlide ==
    /\ pc = "loop" /\ field = 0 /\ sticker_index <= TotalStickers
    /\ CeilOf(sticker_index, 6) > slideCount

\* C10: a missing shape or slide never ends the run. At a missing shape
\* the step reads no cell, changes no shape and goes to the next field; at
\* a missing slide it reads no cell, changes no shape and goes to the next
\* sticker; no cell is ever read for a field without a shape; a finished
\* run has visited the stickers 1..total in increasing order.
C10_MissingTolerated ==
    /\ [][AtMissingShape =>
            /\ cellsRead' = cellsRead /\ shapes' = shapes /\ pc' = "loop"
            /\ IF field = 6
               THEN sticker_index' = sticker_index + 1 /\ field' = 0
               ELSE sticker_index' = sticker_index /\ field' = field + 1]_vars
    /\ [][AtMissingSlide =>
            /\ cellsRead' = cellsRead /\ shapes' = shapes /\ pc' = "loop"
            /\ sticker_index' = sticker_index + 1 /\ field' = 0]_vars
    /\ [](\A rc \in cellsRead : OnItsSlide(rc[1] - 2, rc[2] - 8))
    /\ [](pc = "done" => visited = [k \in 1 .. TotalStickers |-> k])

C10_Witness ==
    /\ pc = "done" /\ pass = 1
    /\ "Point 02.03" \notin DOMAIN shapes
    /\ <<4, 11>> \notin cellsRead
    /\ <<4, 12>> \in cellsRead
    /\ shapes["Point 02.04"].Text # OldText
    /\ Len(visited) = TotalStickers

====
